---------------------------- MODULE Spec2Model ----------------------------
(***************************************************************************)
(* PNGFuse: embedding files as compressed "fuSe" chunks inside a PNG.      *)
(*                                                                         *)
(* The image is modelled byte for byte, as a sequence of integers 0..255.  *)
(* Offsets are the C offsets (0-based): the byte at offset o of a buffer   *)
(* is buf[o + 1].  Reads past the end of the buffer see the bytes of a     *)
(* "garbage" sequence g that stands for whatever lies behind the buffer in *)
(* memory.                                                                 *)
(***************************************************************************)
EXTENDS Integers, Sequences, FiniteSets, TLC

-----------------------------------------------------------------------------
(* Bounds of the model *)

\* number of operations applied to one loaded image
MaxOps == 2

\* number of files handed to one add_sub_file(files) call
MaxFiles == 2

\* length of the keys, values and file names taken through the codecs
MaxLen == 2

-----------------------------------------------------------------------------
(* Bytes, words and memory reads *)

Byte == 0..255

RECURSIVE XorBits(_, _, _)
\* bitwise exclusive or of two n-bit numbers
XorBits(a, b, n) ==
    IF n = 0 THEN 0
    ELSE (((a % 2) + (b % 2)) % 2) + (2 * XorBits(a \div 2, b \div 2, n - 1))

\* A 32-bit word is kept as its 4 bytes, most significant first (TLC's
\* integers end at 2^31 - 1).
Xor8Table == [a \in Byte |-> [b \in Byte |-> XorBits(a, b, 8)]]

Xor8(a, b) == Xor8Table[a][b]

Xor32(a, b) == <<Xor8(a[1], b[1]), Xor8(a[2], b[2]), Xor8(a[3], b[3]), Xor8(a[4], b[4])>>

\* the word shifted right by one bit
Shr1(w) == << w[1] \div 2,
              ((w[1] % 2) * 128) + (w[2] \div 2),
              ((w[2] % 2) * 128) + (w[3] \div 2),
              ((w[3] % 2) * 128) + (w[4] \div 2) >>

\* a number below 2^31 as 4 bytes, most significant first
U32BE(n) == << (n \div 16777216) % 256, (n \div 65536) % 256, (n \div 256) % 256, n % 256 >>

Min(a, b) == IF a < b THEN a ELSE b

\* the byte at C offset off of buf; behind the buffer, the bytes of g
At(buf, g, off) ==
    IF off < Len(buf) THEN buf[off + 1]
    ELSE IF off - Len(buf) < Len(g) THEN g[off - Len(buf) + 1]
    ELSE 0

\* the n bytes at offsets off .. off + n - 1
Bytes(buf, g, off, n) == [i \in 1..n |-> At(buf, g, off + i - 1)]

\* bytes [from, to) of buf, both C offsets inside the buffer
Slice(buf, from, to) == SubSeq(buf, from + 1, to)

RECURSIVE IndexOfNul(_, _, _, _, _)
\* memchr(p, '\0', n): offset (relative to p) of the first 0 among n bytes, or -1
IndexOfNul(buf, g, p, n, i) ==
    IF i >= n THEN -1
    ELSE IF At(buf, g, p + i) = 0 THEN i
    ELSE IndexOfNul(buf, g, p, n, i + 1)

-----------------------------------------------------------------------------
(* Constants of the formats *)

PNG_SIGNATURE == <<137, 80, 78, 71, 13, 10, 26, 10>>

T_IHDR == <<73, 72, 68, 82>>
T_IDAT == <<73, 68, 65, 84>>
T_IEND == <<73, 69, 78, 68>>
T_tEXt == <<116, 69, 88, 116>>

\* TextChunk::type()
TextChunk_type == <<122, 84, 88, 116>>

\* FuseChunk::type()
FuseChunk_type == <<102, 117, 83, 101>>

\* FuseChunk::key
FuseChunk_key == <<80, 78, 71, 70, 117, 115, 101>>

-----------------------------------------------------------------------------
(* LodePNG: checksums, zlib framing and chunk navigation *)

RECURSIVE CrcStep(_, _)
\* one table entry: 8 shift steps with the polynomial 0xEDB88320
CrcStep(c, k) ==
    IF k = 0 THEN c
    ELSE CrcStep(IF c[4] % 2 = 1 THEN Xor32(<<237, 184, 131, 32>>, Shr1(c)) ELSE Shr1(c), k - 1)

lodepng_crc32_table == [n \in 0..255 |-> CrcStep(<<0, 0, 0, n>>, 8)]

\* one byte b added to the running value r
CrcByte(r, b) == Xor32(lodepng_crc32_table[Xor8(r[4], b)], <<0, r[1], r[2], r[3]>>)

RECURSIVE CrcUpdate(_, _, _)
\* (the test on the new value makes TLC compute it before the next step)
CrcUpdate(r, data, i) ==
    IF i > Len(data) THEN r
    ELSE LET r2 == CrcByte(r, data[i])
         IN IF r2[1] \in Byte THEN CrcUpdate(r2, data, i + 1) ELSE r2

\* lodepng_crc32, as the 4 bytes written into the chunk
lodepng_crc32(data) == Xor32(CrcUpdate(<<255, 255, 255, 255>>, data, 1), <<255, 255, 255, 255>>)

RECURSIVE AdlerUpdate(_, _, _, _)
AdlerUpdate(s1, s2, data, i) ==
    IF i > Len(data) THEN << s2 \div 256, s2 % 256, s1 \div 256, s1 % 256 >>
    ELSE LET t1 == (s1 + data[i]) % 65521
             t2 == (s2 + t1) % 65521
         IN IF t1 + t2 >= 0 THEN AdlerUpdate(t1, t2, data, i + 1) ELSE <<>>

\* the Adler-32 checksum of a zlib stream, as its 4 bytes
adler32(data) == AdlerUpdate(1, 0, data, 1)

\* lodepng_chunk_length: the 32-bit big-endian length field
lodepng_chunk_length(buf, g, chunk) ==
    (At(buf, g, chunk) * 16777216) + (At(buf, g, chunk + 1) * 65536)
      + (At(buf, g, chunk + 2) * 256) + At(buf, g, chunk + 3)

\* lodepng_chunk_type_equals: compares the bytes at chunk + 4 .. chunk + 7
lodepng_chunk_type_equals(buf, g, chunk, type) == Bytes(buf, g, chunk + 4, 4) = type

\* lodepng_chunk_data_const
lodepng_chunk_data_const(chunk) == chunk + 8

\* lodepng_chunk_next(chunk, end)
lodepng_chunk_next(buf, g, chunk, end) ==
    IF chunk >= end \/ end - chunk < 12 THEN end
    ELSE IF Bytes(buf, g, chunk, 8) = PNG_SIGNATURE THEN chunk + 8
    ELSE IF lodepng_chunk_length(buf, g, chunk) + 12 > end - chunk THEN end
    ELSE chunk + lodepng_chunk_length(buf, g, chunk) + 12

NULL == -1

RECURSIVE lodepng_chunk_find_const(_, _, _, _, _)
lodepng_chunk_find_const(buf, g, chunk, end, type) ==
    IF chunk >= end \/ end - chunk < 12 THEN NULL
    ELSE IF lodepng_chunk_type_equals(buf, g, chunk, type) THEN chunk
    ELSE lodepng_chunk_find_const(buf, g, lodepng_chunk_next(buf, g, chunk, end), end, type)

\* lodepng_chunk_create: length, type, data, CRC over type + data
lodepng_chunk_create(data, type) ==
    U32BE(Len(data)) \o type \o data \o lodepng_crc32(type \o data)

\* lodepng_zlib_compress, as a zlib stream holding one stored deflate block:
\* CMF FLG, block header, LEN, NLEN (little-endian), the data, Adler-32
lodepng_zlib_compress(data) ==
    <<120, 1, 1, Len(data) % 256, Len(data) \div 256,
      255 - (Len(data) % 256), 255 - (Len(data) \div 256)>>
      \o data \o adler32(data)

\* lodepng_zlib_decompress of such a stream: the data, or an error
lodepng_zlib_decompress(z) ==
    IF Len(z) < 11 THEN [error |-> TRUE, out |-> <<>>]
    ELSE LET n == z[4] + (256 * z[5])
         IN IF /\ z[1] = 120 /\ z[2] = 1 /\ z[3] = 1
               /\ z[6] = 255 - z[4] /\ z[7] = 255 - z[5]
               /\ Len(z) = n + 11
               /\ SubSeq(z, n + 8, n + 11) = adler32(SubSeq(z, 8, n + 7))
            THEN [error |-> FALSE, out |-> SubSeq(z, 8, n + 7)]
            ELSE [error |-> TRUE, out |-> <<>>]

-----------------------------------------------------------------------------
(* ImageImplementation: decompress, compress, chunk_encode *)

\* decompress(): check_error turns a LodePNG error into an exception
decompress(compressed) == lodepng_zlib_decompress(compressed)

\* compress()
compress(data) == lodepng_zlib_compress(data)

\* (chunk_encode with the CRC taken over the data alone)
chunk_encode_crc_of_data(data, type) ==
    U32BE(Len(data)) \o type \o data \o lodepng_crc32(data)

\* chunk_encode(data, type)
chunk_encode(data, type) == lodepng_chunk_create(data, type)

-----------------------------------------------------------------------------
(* SubFile: a record [name, contents]; name holds the bytes of the path,   *)
(* which are its UTF-8 form on a platform with narrow native paths.        *)

SubFileOf(name, contents) == [name |-> name, contents |-> contents]

\* SubFile::merged(): "[filename]NUL[binary contents]"
merged(sf) == sf.name \o <<0>> \o sf.contents

\* (from_merged with the contents taken from the NUL instead of behind it)
from_merged_keeping_nul(data) ==
    LET end_of_filename == IndexOfNul(data, <<>>, 0, Len(data), 0)
    IN IF end_of_filename = -1
       THEN [ub |-> TRUE, name |-> <<>>, contents |-> <<>>]
       ELSE [ub |-> FALSE,
             name |-> Slice(data, 0, end_of_filename),
             contents |-> Slice(data, end_of_filename, Len(data))]

\* SubFile::from_merged(data): split at the first NUL found by memchr over
\* the whole of data.  Without a NUL memchr returns a null pointer, from
\* which the code goes on to build the name: ub is set.
from_merged(data) ==
    LET end_of_filename == IndexOfNul(data, <<>>, 0, Len(data), 0)
    IN IF end_of_filename = -1
       THEN [ub |-> TRUE, name |-> <<>>, contents |-> <<>>]
       ELSE [ub |-> FALSE,
             name |-> Slice(data, 0, end_of_filename),
             contents |-> Slice(data, end_of_filename + 1, Len(data))]

-----------------------------------------------------------------------------
(* TextChunk: a record [key, value] *)

\* stands for (unsigned)0 - 1 = 2^32 - 1: more bytes than any modelled memory
UINT_MAX == 2147483647

TextChunkOf(key, value) == [key |-> key, value |-> value]

\* (encode_data without the compression method byte)
encode_data_no_method(tc) == tc.key \o <<0>> \o compress(tc.value)

\* TextChunk::encode_data(): key, NUL, compression method 0, compressed value
encode_data(tc) == tc.key \o <<0>> \o <<0>> \o compress(tc.value)

\* TextChunk::encode()
TextChunk_encode(tc) == chunk_encode(encode_data(tc), TextChunk_type)

\* TextChunk::TextChunk(const unsigned char *chunk): decode the chunk at
\* offset chunk of buf.  error is "none", "corrupt" (Encountered corrupt
\* chunk), "decompress" (a LodePNG error), or "ub" when the length left for
\* the compressed bytes is negative.
TextChunk_decode(buf, g, chunk) ==
    LET length == lodepng_chunk_length(buf, g, chunk)
        data == lodepng_chunk_data_const(chunk)
        searched == IF length = 0 THEN UINT_MAX ELSE length - 1
        memory == Len(buf) + Len(g) + 1 - data
        end_of_key == IndexOfNul(buf, g, data, Min(searched, memory), 0)
        compression_method == end_of_key + 1
        compressed == compression_method + 1
        compressed_length == length - compressed
        failed(e) == [error |-> e, key |-> <<>>, value |-> <<>>]
    IN IF end_of_key = -1 THEN failed("corrupt")
       ELSE IF At(buf, g, data + compression_method) # 0 THEN failed("corrupt")
       ELSE IF compressed_length < 0 THEN failed("ub")
       ELSE LET decompressed == decompress(Bytes(buf, g, data + compressed, compressed_length))
            IN IF decompressed.error THEN failed("decompress")
               ELSE [error |-> "none",
                     key |-> Bytes(buf, g, data, end_of_key),
                     value |-> decompressed.out]

\* TextChunk::is_valid
TextChunk_is_valid(buf, g, chunk) == lodepng_chunk_type_equals(buf, g, chunk, TextChunk_type)

-----------------------------------------------------------------------------
(* FuseChunk *)

\* FuseChunk::FuseChunk(SubFile &&data)
FuseChunkOf(sf) == TextChunkOf(FuseChunk_key, merged(sf))

\* FuseChunk::encode()
FuseChunk_encode(fc) == chunk_encode(encode_data(fc), FuseChunk_type)

\* FuseChunk::FuseChunk(const unsigned char *chunk)
FuseChunk_decode(buf, g, chunk) == TextChunk_decode(buf, g, chunk)

\* FuseChunk::to_subfile()
to_subfile(fc) == from_merged(fc.value)

\* FuseChunk::is_valid: the type code, and memcmp of key.size() payload bytes
FuseChunk_is_valid(buf, g, chunk) ==
    /\ lodepng_chunk_type_equals(buf, g, chunk, FuseChunk_type)
    /\ Bytes(buf, g, lodepng_chunk_data_const(chunk), Len(FuseChunk_key)) = FuseChunk_key

-----------------------------------------------------------------------------
(* Image<FuseChunk>: the operations on the byte buffer *)

\* whether lodepng_chunk_type_equals(chunk, type) reads a byte behind the
\* buffer: it compares chunk[4] .. chunk[7] with the type one by one and
\* stops at the first byte that differs
type_read_past_end(buf, chunk, type) ==
    /\ chunk + 8 > Len(buf)
    /\ \A i \in 1..(Len(buf) - (chunk + 4)) : buf[chunk + 4 + i] = type[i]

\* whether FuseChunk::is_valid(chunk) reads bytes behind the buffer: in the
\* test of the type, or, when the type is the fuSe type, among the 7 bytes
\* handed to memcmp
is_valid_reads_past_end(buf, chunk) ==
    \/ type_read_past_end(buf, chunk, FuseChunk_type)
    \/ /\ chunk + 8 <= Len(buf)
       /\ lodepng_chunk_type_equals(buf, <<>>, chunk, FuseChunk_type)
       /\ lodepng_chunk_data_const(chunk) + Len(FuseChunk_key) > Len(buf)

\* (the signature test reduced to the test of the size)
signature_rejected_by_size_only(buf) == Len(buf) < 8

\* the test of Image::Image that throws "is not a valid PNG file"
signature_rejected(buf) == Len(buf) < 8 \/ SubSeq(buf, 1, 8) # PNG_SIGNATURE

RECURSIVE idat_run_end(_, _, _, _)
\* the while loop of find_idat_end; hang: the loop stays at the same chunk
idat_run_end(buf, g, chunk, end) ==
    IF ~lodepng_chunk_type_equals(buf, g, chunk, T_IDAT)
    THEN [found |-> TRUE, hang |-> FALSE, pos |-> chunk,
          oob |-> type_read_past_end(buf, chunk, T_IDAT)]
    ELSE IF lodepng_chunk_next(buf, g, chunk, end) = chunk
    THEN [found |-> TRUE, hang |-> TRUE, pos |-> chunk,
          oob |-> type_read_past_end(buf, chunk, T_IDAT)]
    ELSE idat_run_end(buf, g, lodepng_chunk_next(buf, g, chunk, end), end)

\* Image::find_idat_end(); found = FALSE: lodepng_chunk_find_const returned
\* a null pointer, which the loop then reads through
find_idat_end(buf, g) ==
    LET end == Len(buf)
        chunk == lodepng_chunk_find_const(buf, g, 8, end, T_IDAT)
    IN IF chunk = NULL
       THEN [found |-> FALSE, hang |-> FALSE, pos |-> 0, oob |-> FALSE]
       ELSE idat_run_end(buf, g, chunk, end)

\* std::vector::insert(begin + pos, first, last), for pos inside the vector
vector_insert(buf, pos, bytes) == Slice(buf, 0, pos) \o bytes \o Slice(buf, pos, Len(buf))

\* std::vector::erase(begin + from, begin + to)
vector_erase(buf, from, to) == Slice(buf, 0, from) \o Slice(buf, to, Len(buf))

\* (add_chunk inserting behind the signature instead of at idat_end_pos)
add_chunk_at_front(buf, pos, chunk) == vector_insert(buf, 8, FuseChunk_encode(chunk))

\* Image::add_chunk(const ChunkT &chunk)
add_chunk(buf, pos, chunk) == vector_insert(buf, pos, FuseChunk_encode(chunk))

RECURSIVE insert_in_input_order(_, _, _, _)
\* (the loop without reverse_view)
insert_in_input_order(buf, pos, encoded, i) ==
    IF i = 0 THEN buf
    ELSE insert_in_input_order(vector_insert(buf, pos, encoded[Len(encoded) - i + 1]),
                               pos, encoded, i - 1)

RECURSIVE insert_reversed(_, _, _, _)
\* the last loop of add_chunk(chunks): the encoded chunks, last one first,
\* each inserted at idat_end_pos
insert_reversed(buf, pos, encoded, i) ==
    IF i = 0 THEN buf
    ELSE insert_reversed(vector_insert(buf, pos, encoded[i]), pos, encoded, i - 1)

RECURSIVE behind_fuse_chunks(_, _)
\* the offset behind the valid chunks that stand at pos
behind_fuse_chunks(buf, pos) ==
    IF pos < Len(buf) /\ FuseChunk_is_valid(buf, <<>>, pos)
    THEN behind_fuse_chunks(buf, lodepng_chunk_next(buf, <<>>, pos, Len(buf)))
    ELSE pos

\* (the chunks inserted behind those that earlier calls inserted)
add_chunks_behind_earlier(buf, pos, chunks) ==
    LET encoded == [i \in 1..Len(chunks) |-> FuseChunk_encode(chunks[i])]
    IN insert_reversed(buf, behind_fuse_chunks(buf, pos), encoded, Len(encoded))

\* Image::add_chunk(const std::vector<ChunkT> &chunks): every chunk encoded
\* (by its own task), the results collected in input order, then inserted
add_chunks(buf, pos, chunks) ==
    LET encoded == [i \in 1..Len(chunks) |-> FuseChunk_encode(chunks[i])]
    IN insert_reversed(buf, pos, encoded, Len(encoded))

RECURSIVE get_chunks_loop(_, _, _, _, _, _)
\* the for loop of get_chunks: chunks collects the decoded valid chunks; a
\* chunk that fails to decode throws out of the loop
get_chunks_loop(buf, g, chunk, end, chunks, oob) ==
    IF ~(chunk < end) THEN [error |-> "none", chunks |-> chunks, oob |-> oob]
    ELSE LET o == oob \/ is_valid_reads_past_end(buf, chunk)
         IN IF FuseChunk_is_valid(buf, g, chunk)
            THEN LET decoded == FuseChunk_decode(buf, g, chunk)
                 IN IF decoded.error # "none"
                    THEN [error |-> decoded.error, chunks |-> chunks, oob |-> o]
                    ELSE get_chunks_loop(buf, g, lodepng_chunk_next(buf, g, chunk, end), end,
                                         Append(chunks, TextChunkOf(decoded.key, decoded.value)), o)
            ELSE get_chunks_loop(buf, g, lodepng_chunk_next(buf, g, chunk, end), end, chunks, o)

\* (get_chunks scanning from the end of the IDAT chunks only)
get_chunks_after_idat(buf, g) ==
    get_chunks_loop(buf, g, find_idat_end(buf, g).pos, Len(buf), <<>>, FALSE)

\* Image::get_chunks()
get_chunks(buf, g) == get_chunks_loop(buf, g, 8, Len(buf), <<>>, FALSE)

NoRange == -1

RECURSIVE clear_chunks_scan(_, _, _, _, _, _, _, _)
\* the first loop of clear_chunks: the contiguous ranges of valid chunks
clear_chunks_scan(buf, g, chunk, end, ranges, range_begin, chunk_count, oob) ==
    IF ~(chunk < end) THEN [ranges |-> ranges, chunk_count |-> chunk_count, oob |-> oob]
    ELSE LET o == oob \/ is_valid_reads_past_end(buf, chunk)
             next == lodepng_chunk_next(buf, g, chunk, end)
         IN IF FuseChunk_is_valid(buf, g, chunk)
            THEN clear_chunks_scan(buf, g, next, end, ranges,
                                   IF range_begin = NoRange THEN chunk ELSE range_begin,
                                   chunk_count + 1, o)
            ELSE IF range_begin # NoRange
            THEN clear_chunks_scan(buf, g, next, end, Append(ranges, <<range_begin, chunk>>),
                                   NoRange, chunk_count, o)
            ELSE clear_chunks_scan(buf, g, next, end, ranges, range_begin, chunk_count, o)

RECURSIVE erase_ranges(_, _, _)
\* the second loop of clear_chunks: the ranges erased back to front
erase_ranges(buf, ranges, i) ==
    IF i = 0 THEN buf
    ELSE erase_ranges(vector_erase(buf, ranges[i][1], ranges[i][2]), ranges, i - 1)

\* Image::clear_chunks(): the buffer afterwards and the returned chunk_count
clear_chunks(buf, g) ==
    LET scan == clear_chunks_scan(buf, g, 8, Len(buf), <<>>, NoRange, 0, FALSE)
    IN [image |-> erase_ranges(buf, scan.ranges, Len(scan.ranges)),
        chunk_count |-> scan.chunk_count,
        oob |-> scan.oob]

-----------------------------------------------------------------------------
(* The files of the model *)

\* files to embed: "a" (empty) and "b.c" (contents with a NUL byte)
FileA == SubFileOf(<<97>>, <<>>)
FileB == SubFileOf(<<98, 46, 99>>, <<0, 66>>)

Files == {FileA, FileB}

\* files found embedded in some of the input images
FileC == SubFileOf(<<99>>, <<67>>)
FileD == SubFileOf(<<100>>, <<0>>)

RECURSIVE SeqsUpTo(_, _)
\* the sequences of at most n elements of S
SeqsUpTo(S, n) ==
    IF n = 0 THEN {<<>>}
    ELSE LET shorter == SeqsUpTo(S, n - 1)
         IN shorter \cup {Append(q, x) : q \in shorter, x \in S}

FileLists == SeqsUpTo(Files, MaxFiles)

C_IHDR == chunk_encode(<<0, 0, 0, 1, 0, 0, 0, 1, 8, 0, 0, 0, 0>>, T_IHDR)
C_IDAT == chunk_encode(compress(<<0, 0>>), T_IDAT)
C_IDAT2 == chunk_encode(<<7>>, T_IDAT)
C_IEND == chunk_encode(<<>>, T_IEND)
C_tEXt == chunk_encode(<<67, 0, 68>>, T_tEXt)
C_FuseC == FuseChunk_encode(FuseChunkOf(FileC))
C_FuseD == FuseChunk_encode(FuseChunkOf(FileD))
\* fuSe chunks written by hand: keyword "PNGFuseX", keyword "Other"
C_WrongKey == chunk_encode(encode_data(TextChunkOf(FuseChunk_key \o <<88>>, merged(FileC))),
                           FuseChunk_type)
C_OtherKey == chunk_encode(encode_data(TextChunkOf(<<79, 116, 104, 101, 114>>, merged(FileC))),
                           FuseChunk_type)

Png_plain == PNG_SIGNATURE \o C_IHDR \o C_IDAT \o C_IEND
Png_two_idat == PNG_SIGNATURE \o C_IHDR \o C_IDAT \o C_IDAT2 \o C_IEND
Png_fuse_before_idat == PNG_SIGNATURE \o C_IHDR \o C_FuseC \o C_IDAT \o C_IEND
Png_fuse_between_idat == PNG_SIGNATURE \o C_IHDR \o C_IDAT \o C_FuseC \o C_IDAT2 \o C_IEND
Png_fuse_after_idat == PNG_SIGNATURE \o C_IHDR \o C_IDAT \o C_FuseC \o C_FuseD \o C_IEND
Png_fuse_at_end == PNG_SIGNATURE \o C_IHDR \o C_IDAT \o C_FuseC
Png_two_ranges == PNG_SIGNATURE \o C_IHDR \o C_FuseC \o C_IDAT \o C_tEXt \o C_FuseD \o C_IEND
Png_wrong_key == PNG_SIGNATURE \o C_IHDR \o C_IDAT \o C_WrongKey \o C_IEND
Png_other_key == PNG_SIGNATURE \o C_IHDR \o C_IDAT \o C_OtherKey \o C_IEND
Png_idat_last == PNG_SIGNATURE \o C_IHDR \o C_IDAT
Png_no_idat == PNG_SIGNATURE \o C_IHDR \o C_IEND
Png_signature_only == PNG_SIGNATURE
\* the last chunk declares 100 payload bytes, 3 are there
Png_overlong == PNG_SIGNATURE \o C_IHDR \o C_IDAT \o C_FuseC
                  \o <<0, 0, 0, 100>> \o T_tEXt \o <<1, 2, 3>> \o <<0, 0, 0, 0>>
\* the file ends 5 bytes into the header of its last chunk
Png_truncated == PNG_SIGNATURE \o C_IHDR \o C_IDAT \o C_FuseC \o <<0, 0, 0, 0, 73>>
Not_png == <<71, 73, 70, 56, 57, 97, 0, 0>> \o C_IHDR \o C_IDAT \o C_IEND
Too_short == <<137, 80, 78, 71>>
Empty_file == <<>>

InputFiles ==
    { Png_plain, Png_two_idat, Png_fuse_before_idat, Png_fuse_between_idat,
      Png_fuse_after_idat, Png_fuse_at_end, Png_two_ranges, Png_wrong_key,
      Png_other_key, Png_idat_last, Png_no_idat, Png_signature_only,
      Png_overlong, Png_truncated, Not_png, Too_short, Empty_file }

\* what may lie behind the buffer: zero bytes, or bytes that read as the
\* type code IDAT at offset 4
Garbage == { <<0, 0, 0, 0, 0, 0, 0, 0>>, <<0, 0, 0, 0, 73, 68, 65, 84>> }

\* A read behind the buffer is undefined: the run may stop there, or go on
\* with whatever bytes it found.  Without such a read neither matters.
BehindBuffer(oob) == IF oob THEN Garbage ELSE {<<>>}
MayCrash(oob) == IF oob THEN BOOLEAN ELSE {FALSE}

\* the inputs of the codec runs
KeyBytes == {80, 126}
ValueBytes == {0, 7}
NameBytes == {97, 195}
Keys == SeqsUpTo(KeyBytes, MaxLen) \cup {FuseChunk_key}
Values == SeqsUpTo(ValueBytes, MaxLen)
Names == SeqsUpTo(NameBytes, MaxLen)
TextChunks == {TextChunkOf(k, v) : k \in Keys, v \in Values}
SubFiles == {SubFileOf(n, c) : n \in Names, c \in Values}
\* fuSe chunks written by hand whose value holds no NUL byte: the value
\* "ab" and the empty value
C_NoNul == FuseChunk_encode(TextChunkOf(FuseChunk_key, <<97, 98>>))
C_EmptyValue == FuseChunk_encode(TextChunkOf(FuseChunk_key, <<>>))
\* chunks as they may be found in a file
RawChunks == {C_FuseC, C_FuseD, C_WrongKey, C_OtherKey, C_NoNul, C_EmptyValue}

\* values as to_subfile may hand them to from_merged
MergedBytes == {0, 97}
MergedRecords == SeqsUpTo(MergedBytes, MaxLen)

\* payloads of chunks written by hand: of length 0, 1, 2 and more, with
\* and without a NUL byte, with the compression methods 0 and 1
RawPayloads ==
    { <<>>, <<0>>, <<65>>, <<0, 0>>, <<65, 0>>, <<65, 66, 67>>, <<65, 66, 0>>,
      <<65, 0, 1>> \o compress(<<7>>), <<65, 0, 0>> \o compress(<<7>>),
      <<65, 0, 0, 9, 9>>, FuseChunk_key, FuseChunk_key \o <<0>>,
      <<80, 78, 71>> }
\* a fuSe chunk with the 3-byte payload "PNG" and the bytes "Fuse" where
\* its CRC stands
C_ShortPayload == <<0, 0, 0, 3>> \o FuseChunk_type \o <<80, 78, 71>> \o <<70, 117, 115, 101>>
\* buffers whose first chunk is handed to the TextChunk constructor or to
\* is_valid; the IEND chunk stands for the rest of the file
RawBuffers ==
    {chunk_encode(p, FuseChunk_type) \o C_IEND : p \in RawPayloads}
      \cup {chunk_encode(p, TextChunk_type) \o C_IEND : p \in RawPayloads}
      \cup {c \o C_IEND : c \in {C_ShortPayload, C_FuseC, C_WrongKey, C_OtherKey,
                                  TextChunk_encode(FuseChunkOf(FileC))}}

-----------------------------------------------------------------------------
(* The state *)

VARIABLES
    pc,            \* "start", "loading" (find_idat_end is running step by
                   \* step), "loaded", "failed" (an exception was thrown),
                   \* "crashed", "hung" or "done" (the operation of main has
                   \* returned); "codec" in a codec run
    file,          \* the bytes of the file the image is loaded from
    image,         \* Image::image
    idat_end_pos,  \* Image::idat_end_pos
    log,           \* the calls made on the image so far, each with its
                   \* arguments, the buffer it found and what it returned
    cpc,           \* codec run: the step reached
    cin,           \* codec run: the TextChunk or SubFile being encoded
    wire,          \* codec run: the encoded bytes
    cout,          \* codec run: what decoding the bytes gave
    cmd,           \* the operation that is run (of main, or add_chunk step
                   \* by step), with the files to embed
    disk,          \* the files written so far, in the order of the writes
    tasks,         \* add_chunk(chunks): the std::async tasks started so far
    encoded,       \* add_chunk(chunks): the vector encoded
    inserted,      \* add_chunk(chunks): number of image.insert calls made
    scan           \* a scan run step by step: the loop it is in, the place in
                   \* the loop, the chunk pointer, what the loop has collected

ivars == <<pc, file, image, idat_end_pos, log>>
cvars == <<cpc, cin, wire, cout>>
mvars == <<cmd, disk>>
avars == <<tasks, encoded, inserted>>
vars == <<pc, file, image, idat_end_pos, log, cpc, cin, wire, cout,
          cmd, disk, tasks, encoded, inserted, scan>>

None == [error |-> "unset"]

\* no operation of main: the calls are made on the image directly
NoCommand == [op |-> "none", files |-> <<>>]

\* no scan is running.  loop: "find" (lodepng_chunk_find_const), "idat"
\* (the while loop of find_idat_end), "get", "clear" or "none"; at: "test"
\* (condition and body of the iteration) or "next" (the move to the next
\* chunk); behind: the bytes found behind the buffer, once read; outside:
\* the last test read bytes outside the buffer
NoScan ==
    [loop |-> "none", at |-> "test", chunk |-> 0, behind |-> <<>>, outside |-> FALSE,
     chunks |-> <<>>, ranges |-> <<>>, range_begin |-> NoRange, chunk_count |-> 0]

Init ==
    /\ pc = "start"
    /\ file \in InputFiles
    /\ image = <<>>
    /\ idat_end_pos = 0
    /\ log = <<>>
    /\ cpc = "idle" /\ cin = None /\ wire = <<>> /\ cout = None
    /\ cmd = NoCommand /\ disk = <<>>
    /\ tasks = <<>> /\ encoded = <<>> /\ inserted = 0
    /\ scan = NoScan

\* Image::Image(const path &file): read, signature check, find_idat_end
Load ==
    /\ pc = "start"
    /\ image' = file
    /\ IF signature_rejected(file)
       THEN pc' = "failed" /\ idat_end_pos' = idat_end_pos
       ELSE \E g \in BehindBuffer(find_idat_end(file, <<>>).oob),
               crash \in MayCrash(find_idat_end(file, <<>>).oob) :
              LET r == find_idat_end(file, g)
              IN IF ~r.found \/ crash
                 THEN pc' = "crashed" /\ idat_end_pos' = idat_end_pos
                 ELSE IF r.hang
                 THEN pc' = "hung" /\ idat_end_pos' = idat_end_pos
                 ELSE pc' = "loaded" /\ idat_end_pos' = r.pos
    /\ UNCHANGED <<file, log>>
    /\ UNCHANGED <<cvars, mvars, avars, scan>>

Call(op, files, count, subs, error) ==
    [op |-> op, files |-> files, before |-> image,
     count |-> count, subs |-> subs, error |-> error]

\* image.add_sub_file(f)
call_add_sub_file(f) ==
    /\ log' = Append(log, Call("add_sub_file", <<f>>, 0, <<>>, "none"))
    /\ IF idat_end_pos > Len(image)
       THEN pc' = "crashed" /\ image' = image
       ELSE pc' = pc /\ image' = add_chunk(image, idat_end_pos, FuseChunkOf(f))
    /\ UNCHANGED <<file, idat_end_pos>>
    /\ UNCHANGED <<cvars, mvars, avars, scan>>

\* SubFileImage::add_sub_file(const path &file)
AddSubFile ==
    /\ pc = "loaded" /\ Len(log) < MaxOps
    /\ \E f \in Files : call_add_sub_file(f)

\* image.add_sub_file(fs)
call_add_sub_files(fs) ==
    /\ log' = Append(log, Call("add_sub_files", fs, 0, <<>>, "none"))
    /\ IF idat_end_pos > Len(image) /\ Len(fs) > 0
       THEN pc' = "crashed" /\ image' = image
       ELSE /\ pc' = pc
            /\ image' = add_chunks(image, idat_end_pos,
                                   [i \in 1..Len(fs) |-> FuseChunkOf(fs[i])])
    /\ UNCHANGED <<file, idat_end_pos>>
    /\ UNCHANGED <<cvars, mvars, avars, scan>>

\* SubFileImage::add_sub_file(const std::vector<path> &files)
AddSubFiles ==
    /\ pc = "loaded" /\ Len(log) < MaxOps
    /\ \E fs \in FileLists : call_add_sub_files(fs)

\* SubFileImage::get_sub_files(): get_chunks, then to_subfile of each chunk
get_sub_files(buf, g) ==
    LET r == get_chunks(buf, g)
        sub_files == [i \in 1..Len(r.chunks) |-> to_subfile(r.chunks[i])]
    IN [error |-> r.error,
        oob |-> r.oob,
        ub |-> r.error = "ub"
                 \/ (r.error = "none" /\ \E i \in 1..Len(sub_files) : sub_files[i].ub),
        sub_files |-> [i \in 1..Len(sub_files) |->
                          SubFileOf(sub_files[i].name, sub_files[i].contents)]]

\* image.get_sub_files(): the vector returned, an exception, or a fault
call_get_sub_files ==
    /\ \E g \in BehindBuffer(get_chunks(image, <<>>).oob),
          crash \in MayCrash(get_chunks(image, <<>>).oob) :
         LET r == get_sub_files(image, g)
         IN IF crash \/ r.ub
            THEN /\ pc' = "crashed"
                 /\ log' = Append(log, Call("get_sub_files", <<>>, 0, <<>>, "none"))
            ELSE IF r.error # "none"
            THEN /\ pc' = "failed"
                 /\ log' = Append(log, Call("get_sub_files", <<>>, 0, <<>>, r.error))
            ELSE /\ pc' = pc
                 /\ log' = Append(log, Call("get_sub_files", <<>>, 0, r.sub_files, "none"))
    /\ UNCHANGED <<file, image, idat_end_pos>>
    /\ UNCHANGED <<cvars, mvars, avars, scan>>

GetSubFiles ==
    /\ pc = "loaded" /\ Len(log) < MaxOps
    /\ call_get_sub_files

\* image.clear_chunks(): the count returned, or a fault
call_clear_chunks ==
    /\ \E g \in BehindBuffer(clear_chunks(image, <<>>).oob),
          crash \in MayCrash(clear_chunks(image, <<>>).oob) :
         LET r == clear_chunks(image, g)
         IN IF crash
            THEN /\ pc' = "crashed" /\ image' = image
                 /\ log' = Append(log, Call("clear_chunks", <<>>, 0, <<>>, "none"))
            ELSE /\ pc' = pc /\ image' = r.image
                 /\ log' = Append(log, Call("clear_chunks", <<>>, r.chunk_count, <<>>, "none"))
    /\ UNCHANGED <<file, idat_end_pos>>
    /\ UNCHANGED <<cvars, mvars, avars, scan>>

\* Image::clear_chunks()
ClearChunks ==
    /\ pc = "loaded" /\ Len(log) < MaxOps
    /\ call_clear_chunks

Next == Load \/ AddSubFile \/ AddSubFiles \/ GetSubFiles \/ ClearChunks

Spec == Init /\ [][Next]_vars

-----------------------------------------------------------------------------
(* The scans step by step: the loops of find_idat_end, get_chunks and      *)
(* clear_chunks.  An iteration is two steps: the test (the condition and   *)
(* the body), and the move of the chunk pointer to the next chunk.         *)

\* files that end in bytes that are no whole chunk: 4 bytes of a chunk
\* header; a fuSe chunk header with the 3 payload bytes "PNG"
Png_cut_header == Png_plain \o <<0, 0, 0, 0>>
Png_short_keyword == Png_plain \o <<0, 0, 0, 3>> \o FuseChunk_type \o <<80, 78, 71>>

ScanFiles == InputFiles \cup {Png_cut_header, Png_short_keyword}

InitScan ==
    /\ pc = "start"
    /\ file \in ScanFiles
    /\ image = <<>>
    /\ idat_end_pos = 0
    /\ log = <<>>
    /\ cpc = "idle" /\ cin = None /\ wire = <<>> /\ cout = None
    /\ cmd = NoCommand /\ disk = <<>>
    /\ tasks = <<>> /\ encoded = <<>> /\ inserted = 0
    /\ scan = NoScan

\* the bytes a read behind the buffer finds: those found there before, or
\* any, when this is the first such read
seen_behind(outside) ==
    IF ~outside \/ scan.behind # <<>> THEN {scan.behind} ELSE Garbage

\* Image::Image: read(file), the signature test, the call of find_idat_end
BeginLoad ==
    /\ pc = "start"
    /\ image' = file
    /\ IF signature_rejected(file)
       THEN pc' = "failed" /\ scan' = scan
       ELSE pc' = "loading" /\ scan' = [NoScan EXCEPT !.loop = "find", !.chunk = 8]
    /\ UNCHANGED <<file, idat_end_pos, log>>
    /\ UNCHANGED <<cvars, mvars, avars>>

\* lodepng_chunk_find_const(&image[8], end, "IDAT"), one iteration: no
\* chunk is left and a null pointer goes to the loop of find_idat_end,
\* which reads through it; or the chunk is an IDAT chunk; or it is not
FindTest ==
    /\ pc = "loading" /\ scan.loop = "find" /\ scan.at = "test"
    /\ IF scan.chunk >= Len(image) \/ Len(image) - scan.chunk < 12
       THEN /\ pc' = "crashed"
            /\ scan' = [scan EXCEPT !.loop = "none", !.chunk = NULL, !.outside = TRUE]
       ELSE IF lodepng_chunk_type_equals(image, scan.behind, scan.chunk, T_IDAT)
       THEN pc' = pc /\ scan' = [scan EXCEPT !.loop = "idat"]
       ELSE pc' = pc /\ scan' = [scan EXCEPT !.at = "next"]
    /\ UNCHANGED <<file, image, idat_end_pos, log>>
    /\ UNCHANGED <<cvars, mvars, avars>>

\* chunk = lodepng_chunk_next(chunk, end) in the loop named
next_chunk(loop) ==
    /\ scan.loop = loop /\ scan.at = "next"
    /\ scan' = [scan EXCEPT !.at = "test",
                            !.chunk = lodepng_chunk_next(image, scan.behind, scan.chunk,
                                                         Len(image))]
    /\ UNCHANGED ivars
    /\ UNCHANGED <<cvars, mvars, avars>>

FindNext == next_chunk("find")

\* the condition of the while loop of find_idat_end: the read of the type
\* code may go behind the buffer and fault; the chunk is an IDAT chunk; or
\* it is not, and its offset becomes idat_end_pos
IdatTest ==
    /\ pc = "loading" /\ scan.loop = "idat" /\ scan.at = "test"
    /\ LET outside == type_read_past_end(image, scan.chunk, T_IDAT)
       IN \/ /\ outside
             /\ pc' = "crashed" /\ idat_end_pos' = idat_end_pos
             /\ scan' = [scan EXCEPT !.loop = "none", !.outside = TRUE]
          \/ \E g \in seen_behind(outside) :
                IF lodepng_chunk_type_equals(image, g, scan.chunk, T_IDAT)
                THEN /\ pc' = pc /\ idat_end_pos' = idat_end_pos
                     /\ scan' = [scan EXCEPT !.at = "next", !.behind = g,
                                             !.outside = outside]
                ELSE /\ pc' = "loaded" /\ idat_end_pos' = scan.chunk
                     /\ scan' = [scan EXCEPT !.loop = "none", !.behind = g,
                                             !.outside = outside]
    /\ UNCHANGED <<file, image, log>>
    /\ UNCHANGED <<cvars, mvars, avars>>

IdatNext == next_chunk("idat")

\* get_sub_files(): get_chunks begins at &image[8]
BeginGet ==
    /\ pc = "loaded" /\ scan.loop = "none" /\ log = <<>>
    /\ scan' = [NoScan EXCEPT !.loop = "get", !.chunk = 8, !.behind = scan.behind]
    /\ UNCHANGED ivars
    /\ UNCHANGED <<cvars, mvars, avars>>

\* the vector get_sub_files makes of the chunks collected, or the fault
\* of from_merged
get_returns ==
    LET sub_files == [i \in 1..Len(scan.chunks) |-> to_subfile(scan.chunks[i])]
    IN IF \E i \in 1..Len(sub_files) : sub_files[i].ub
       THEN /\ pc' = "crashed"
            /\ log' = Append(log, Call("get_sub_files", <<>>, 0, <<>>, "none"))
       ELSE /\ pc' = pc
            /\ log' = Append(log, Call("get_sub_files", <<>>, 0,
                                       [i \in 1..Len(sub_files) |->
                                           SubFileOf(sub_files[i].name, sub_files[i].contents)],
                                       "none"))

\* the for loop of get_chunks, condition and body: the loop is through; or
\* is_valid reads behind the buffer and faults; or the chunk is valid and
\* decoded, which may throw; or it is not valid
GetTest ==
    /\ pc = "loaded" /\ scan.loop = "get" /\ scan.at = "test"
    /\ IF ~(scan.chunk < Len(image))
       THEN get_returns /\ scan' = [scan EXCEPT !.loop = "none"]
       ELSE LET outside == is_valid_reads_past_end(image, scan.chunk)
            IN \/ /\ outside
                  /\ pc' = "crashed"
                  /\ log' = Append(log, Call("get_sub_files", <<>>, 0, <<>>, "none"))
                  /\ scan' = [scan EXCEPT !.loop = "none", !.outside = TRUE]
               \/ \E g \in seen_behind(outside) :
                     LET decoded == FuseChunk_decode(image, g, scan.chunk)
                         read == [scan EXCEPT !.behind = g, !.outside = outside]
                     IN IF ~FuseChunk_is_valid(image, g, scan.chunk)
                        THEN pc' = pc /\ log' = log /\ scan' = [read EXCEPT !.at = "next"]
                        ELSE IF decoded.error = "ub"
                        THEN /\ pc' = "crashed"
                             /\ log' = Append(log, Call("get_sub_files", <<>>, 0, <<>>, "none"))
                             /\ scan' = [read EXCEPT !.loop = "none"]
                        ELSE IF decoded.error # "none"
                        THEN /\ pc' = "failed"
                             /\ log' = Append(log, Call("get_sub_files", <<>>, 0, <<>>,
                                                        decoded.error))
                             /\ scan' = [read EXCEPT !.loop = "none"]
                        ELSE /\ pc' = pc /\ log' = log
                             /\ scan' = [read EXCEPT
                                            !.at = "next",
                                            !.chunks = Append(@, TextChunkOf(decoded.key,
                                                                             decoded.value))]
    /\ UNCHANGED <<file, image, idat_end_pos>>
    /\ UNCHANGED <<cvars, mvars, avars>>

GetNext == next_chunk("get")

\* clear_chunks() begins at &image[8]
BeginClear ==
    /\ pc = "loaded" /\ scan.loop = "none" /\ log = <<>>
    /\ scan' = [NoScan EXCEPT !.loop = "clear", !.chunk = 8, !.behind = scan.behind]
    /\ UNCHANGED ivars
    /\ UNCHANGED <<cvars, mvars, avars>>

\* the first loop of clear_chunks, condition and body: the loop is through,
\* the ranges are erased and chunk_count returned; or is_valid reads behind
\* the buffer and faults; or the chunk is valid and counted; or it is not
\* valid and ends the range that is open
ClearTest ==
    /\ pc = "loaded" /\ scan.loop = "clear" /\ scan.at = "test"
    /\ IF ~(scan.chunk < Len(image))
       THEN /\ pc' = pc
            /\ image' = erase_ranges(image, scan.ranges, Len(scan.ranges))
            /\ log' = Append(log, Call("clear_chunks", <<>>, scan.chunk_count, <<>>, "none"))
            /\ scan' = [scan EXCEPT !.loop = "none"]
       ELSE LET outside == is_valid_reads_past_end(image, scan.chunk)
            IN \/ /\ outside
                  /\ pc' = "crashed" /\ image' = image
                  /\ log' = Append(log, Call("clear_chunks", <<>>, 0, <<>>, "none"))
                  /\ scan' = [scan EXCEPT !.loop = "none", !.outside = TRUE]
               \/ \E g \in seen_behind(outside) :
                     LET read == [scan EXCEPT !.behind = g, !.outside = outside,
                                              !.at = "next"]
                     IN /\ pc' = pc /\ image' = image /\ log' = log
                        /\ IF FuseChunk_is_valid(image, g, scan.chunk)
                           THEN scan' = [read EXCEPT
                                            !.range_begin = IF @ = NoRange THEN scan.chunk
                                                            ELSE @,
                                            !.chunk_count = @ + 1]
                           ELSE IF scan.range_begin # NoRange
                           THEN scan' = [read EXCEPT
                                            !.ranges = Append(@, <<scan.range_begin,
                                                                   scan.chunk>>),
                                            !.range_begin = NoRange]
                           ELSE scan' = read
    /\ UNCHANGED <<file, idat_end_pos>>
    /\ UNCHANGED <<cvars, mvars, avars>>

ClearNext == next_chunk("clear")

\* a step of a loop that is running
ScanStep ==
    \/ FindTest \/ FindNext \/ IdatTest \/ IdatNext
    \/ GetTest \/ GetNext \/ ClearTest \/ ClearNext

NextScan == BeginLoad \/ BeginGet \/ BeginClear \/ ScanStep

\* a loop that is running takes its next step
SpecScan == InitScan /\ [][NextScan]_vars /\ WF_vars(ScanStep)

-----------------------------------------------------------------------------
(* main: one run of fuse, sunder, list or clean on the file.  The calls of *)
(* the run are those logged; disk holds the writes, each a record [name,   *)
(* contents, complete] (complete: std::ofstream::write went through).      *)

\* fuse is called with two or more arguments, one of them the target
Commands ==
    {[op |-> "fuse", files |-> fs] : fs \in FileLists \ {<<>>}}
      \cup {[op |-> o, files |-> <<>>] : o \in {"sunder", "list", "clean"}}

\* what write(out, contents) may come to: the file written, the stream not
\* opened, or the write broken off
WriteOutcomes == {"written", "not opened", "broken off"}

InitMain ==
    /\ pc = "start"
    /\ file \in InputFiles
    /\ image = <<>>
    /\ idat_end_pos = 0
    /\ log = <<>>
    /\ cpc = "idle" /\ cin = None /\ wire = <<>> /\ cout = None
    /\ cmd \in Commands /\ disk = <<>>
    /\ tasks = <<>> /\ encoded = <<>> /\ inserted = 0
    /\ scan = NoScan

\* fuse: find_target finds no PNG among the arguments
NoTarget ==
    /\ pc = "start" /\ cmd.op = "fuse"
    /\ pc' = "failed"
    /\ UNCHANGED <<file, image, idat_end_pos, log>>
    /\ UNCHANGED <<cvars, mvars, avars, scan>>

\* read(file) of the Image constructor throws
ReadFails ==
    /\ pc = "start"
    /\ pc' = "failed"
    /\ UNCHANGED <<file, image, idat_end_pos, log>>
    /\ UNCHANGED <<cvars, mvars, avars, scan>>

\* fuse: image.add_sub_file(files.front()) for one file, else
\* image.add_sub_file(files)
Fuse ==
    /\ pc = "loaded" /\ cmd.op = "fuse" /\ log = <<>>
    /\ IF Len(cmd.files) = 1
       THEN call_add_sub_file(cmd.files[1])
       ELSE call_add_sub_files(cmd.files)

\* fuse: SubFile::from_file throws on a file that cannot be read
FuseReadFails ==
    /\ pc = "loaded" /\ cmd.op = "fuse" /\ log = <<>>
    /\ pc' = "failed"
    /\ log' = Append(log, Call(IF Len(cmd.files) = 1 THEN "add_sub_file" ELSE "add_sub_files",
                               cmd.files, 0, <<>>, "read"))
    /\ UNCHANGED <<file, image, idat_end_pos>>
    /\ UNCHANGED <<cvars, mvars, avars, scan>>

\* sunder, list: SubFileImage(source).get_sub_files()
Extract ==
    /\ pc = "loaded" /\ cmd.op \in {"sunder", "list"} /\ log = <<>>
    /\ call_get_sub_files

\* clean: image.clear_chunks()
Clean ==
    /\ pc = "loaded" /\ cmd.op = "clean" /\ log = <<>>
    /\ call_clear_chunks

\* (image.save reached before the image is changed)
Save_before_the_change ==
    /\ pc = "loaded" /\ cmd.op \in {"fuse", "clean"} /\ disk = <<>>
    /\ \E w \in WriteOutcomes :
         /\ disk' = IF w = "not opened" THEN disk
                    ELSE <<[name |-> "output", contents |-> image, complete |-> w = "written"]>>
         /\ pc' = IF w = "written" THEN "done" ELSE "failed"
         /\ log' = Append(log, Call("save", <<>>, 0, <<>>, IF w = "written" THEN "none" ELSE "write"))
    /\ UNCHANGED <<file, image, idat_end_pos, cmd>>
    /\ UNCHANGED <<cvars, avars, scan>>

\* fuse, clean: image.save(output), the last statement
Save ==
    /\ pc = "loaded" /\ cmd.op \in {"fuse", "clean"} /\ Len(log) = 1
    /\ \E w \in WriteOutcomes :
         /\ disk' = IF w = "not opened" THEN disk
                    ELSE <<[name |-> "output", contents |-> image, complete |-> w = "written"]>>
         /\ pc' = IF w = "written" THEN "done" ELSE "failed"
         /\ log' = Append(log, Call("save", <<>>, 0, <<>>, IF w = "written" THEN "none" ELSE "write"))
    /\ UNCHANGED <<file, image, idat_end_pos, cmd>>
    /\ UNCHANGED <<cvars, avars, scan>>

\* sunder: file.save() of the next SubFile of the vector returned
SaveSubFile ==
    /\ pc = "loaded" /\ cmd.op = "sunder" /\ Len(log) = 1
    /\ Len(disk) < Len(log[1].subs)
    /\ LET sf == log[1].subs[Len(disk) + 1]
       IN \E w \in WriteOutcomes :
            /\ disk' = IF w = "not opened" THEN disk
                       ELSE Append(disk, [name |-> sf.name, contents |-> sf.contents,
                                          complete |-> w = "written"])
            /\ pc' = IF w = "written" THEN pc ELSE "failed"
            /\ log' = IF w = "written" THEN log
                      ELSE Append(log, Call("save", <<sf>>, 0, <<>>, "write"))
    /\ UNCHANGED <<file, image, idat_end_pos, cmd>>
    /\ UNCHANGED <<cvars, avars, scan>>

\* sunder, list: the loop over the vector is through
Return ==
    /\ pc = "loaded" /\ Len(log) = 1
    /\ \/ cmd.op = "list"
       \/ cmd.op = "sunder" /\ Len(disk) = Len(log[1].subs)
    /\ pc' = "done"
    /\ UNCHANGED <<file, image, idat_end_pos, log>>
    /\ UNCHANGED <<cvars, mvars, avars, scan>>

NextMain ==
    \/ NoTarget \/ ReadFails \/ Load \/ Fuse \/ FuseReadFails \/ Extract \/ Clean
    \/ Save \/ SaveSubFile \/ Return

SpecMain == InitMain /\ [][NextMain]_vars

-----------------------------------------------------------------------------
(* Image::add_chunk(const std::vector<ChunkT> &chunks) step by step: the   *)
(* calling thread starts one std::async task per chunk, takes the results  *)
(* with future.get() in the order of the futures, and then inserts.  A     *)
(* task is "pending" until a thread runs it ("running") or until get()     *)
(* runs it itself (the deferred launch policy), and "done" afterwards; by  *)
(* tells which of the two ran it.                                          *)

InitAsync ==
    /\ pc = "start"
    /\ file \in InputFiles
    /\ image = <<>>
    /\ idat_end_pos = 0
    /\ log = <<>>
    /\ cpc = "idle" /\ cin = None /\ wire = <<>> /\ cout = None
    /\ cmd \in {[op |-> "add_chunk", files |-> fs] : fs \in FileLists}
    /\ disk = <<>>
    /\ tasks = <<>> /\ encoded = <<>> /\ inserted = 0
    /\ scan = NoScan

\* the chunk of task i, and what ChunkT::encode makes of it
chunk_of(i) == FuseChunkOf(cmd.files[i])
encode_task(i) == FuseChunk_encode(chunk_of(i))

\* futures.emplace_back(std::async(&ChunkT::encode, &chunk))
Spawn ==
    /\ pc = "loaded" /\ cmd.op = "add_chunk"
    /\ Len(tasks) < Len(cmd.files)
    /\ tasks' = Append(tasks, [state |-> "pending", result |-> <<>>, by |-> "nobody"])
    /\ UNCHANGED <<encoded, inserted>>
    /\ UNCHANGED <<ivars, cvars, mvars, scan>>

\* a thread begins the encode of task i
TaskStart ==
    /\ \E i \in 1..Len(tasks) :
         /\ tasks[i].state = "pending"
         /\ tasks' = [tasks EXCEPT ![i] = [state |-> "running", result |-> <<>>, by |-> "thread"]]
    /\ UNCHANGED <<encoded, inserted>>
    /\ UNCHANGED <<ivars, cvars, mvars, scan>>

\* the encode of task i returns
TaskFinish ==
    /\ \E i \in 1..Len(tasks) :
         /\ tasks[i].state = "running"
         /\ tasks' = [tasks EXCEPT ![i] = [state |-> "done", result |-> encode_task(i),
                                           by |-> "thread"]]
    /\ UNCHANGED <<encoded, inserted>>
    /\ UNCHANGED <<ivars, cvars, mvars, scan>>

\* encoded.emplace_back(future.get()) for the next future: it waits while
\* the task runs, and runs a task no thread has begun
Get ==
    /\ pc = "loaded" /\ cmd.op = "add_chunk"
    /\ Len(tasks) = Len(cmd.files)
    /\ Len(encoded) < Len(tasks)
    /\ LET i == Len(encoded) + 1
       IN \/ /\ tasks[i].state = "done"
             /\ encoded' = Append(encoded, tasks[i].result)
             /\ tasks' = tasks
          \/ /\ tasks[i].state = "pending"
             /\ encoded' = Append(encoded, encode_task(i))
             /\ tasks' = [tasks EXCEPT ![i] = [state |-> "done", result |-> encode_task(i),
                                               by |-> "get"]]
    /\ UNCHANGED inserted
    /\ UNCHANGED <<ivars, cvars, mvars, scan>>

\* (the loop over encoded without reverse_view)
next_in_input_order(enc, n) == enc[n + 1]

\* the element of std::ranges::reverse_view(encoded) reached after n inserts
next_in_reverse_view(enc, n) == enc[Len(enc) - n]

\* image.insert(std::next(image.begin(), idat_end_pos), ...) for the next
\* element of reverse_view(encoded)
Insert ==
    /\ pc = "loaded" /\ cmd.op = "add_chunk"
    /\ Len(tasks) = Len(cmd.files)
    /\ Len(encoded) = Len(tasks)
    /\ inserted < Len(encoded)
    /\ image' = vector_insert(image, idat_end_pos, next_in_reverse_view(encoded, inserted))
    /\ inserted' = inserted + 1
    /\ UNCHANGED <<pc, file, idat_end_pos, log, tasks, encoded>>
    /\ UNCHANGED <<cvars, mvars, scan>>

NextAsync == Load \/ Spawn \/ TaskStart \/ TaskFinish \/ Get \/ Insert

SpecAsync == InitAsync /\ [][NextAsync]_vars

-----------------------------------------------------------------------------
(* Codec runs: one TextChunk, SubFile or raw chunk taken through the codecs *)

InitCodec ==
    /\ pc = "codec" /\ file = <<>> /\ image = <<>> /\ idat_end_pos = 0 /\ log = <<>>
    /\ \/ cpc = "text" /\ cin \in TextChunks /\ wire = <<>>
       \/ cpc = "sub" /\ cin \in SubFiles /\ wire = <<>>
       \/ cpc = "fuse" /\ cin \in SubFiles /\ wire = <<>>
       \/ cpc = "raw" /\ cin = None /\ wire \in RawChunks
       \/ cpc = "merged" /\ cin = None /\ wire \in MergedRecords
       \/ cpc = "chunk" /\ cin = None /\ wire \in RawBuffers
    /\ cout = None
    /\ cmd = NoCommand /\ disk = <<>>
    /\ tasks = <<>> /\ encoded = <<>> /\ inserted = 0
    /\ scan = NoScan

\* TextChunk(key, value).encode()
TextEncode ==
    /\ cpc = "text"
    /\ wire' = TextChunk_encode(cin)
    /\ cpc' = "text_encoded"
    /\ UNCHANGED <<cin, cout>>
    /\ UNCHANGED <<ivars, mvars, avars, scan>>

\* TextChunk(const unsigned char *) on the encoded chunk
TextDecode ==
    /\ cpc = "text_encoded"
    /\ cout' = TextChunk_decode(wire, <<>>, 0)
    /\ cpc' = "text_decoded"
    /\ UNCHANGED <<cin, wire>>
    /\ UNCHANGED <<ivars, mvars, avars, scan>>

\* std::move(subfile).merged()
Merge ==
    /\ cpc = "sub"
    /\ wire' = merged(cin)
    /\ cpc' = "sub_merged"
    /\ UNCHANGED <<cin, cout>>
    /\ UNCHANGED <<ivars, mvars, avars, scan>>

\* SubFile::from_merged on the merged bytes
Split ==
    /\ cpc = "sub_merged"
    /\ cout' = from_merged(wire)
    /\ cpc' = "sub_split"
    /\ UNCHANGED <<cin, wire>>
    /\ UNCHANGED <<ivars, mvars, avars, scan>>

\* FuseChunk(SubFile &&).encode()
FuseEncode ==
    /\ cpc = "fuse"
    /\ wire' = FuseChunk_encode(FuseChunkOf(cin))
    /\ cpc' = "fuse_encoded"
    /\ UNCHANGED <<cin, cout>>
    /\ UNCHANGED <<ivars, mvars, avars, scan>>

\* FuseChunk(const unsigned char *) and to_subfile() on a chunk, encoded
\* here or found in a file
fuse_decode(buf, g, chunk) ==
    LET fc == FuseChunk_decode(buf, g, chunk)
        sf == to_subfile(fc)
    IN IF fc.error # "none"
       THEN [error |-> fc.error, key |-> <<>>, name |-> <<>>, contents |-> <<>>]
       ELSE IF sf.ub
       THEN [error |-> "ub", key |-> fc.key, name |-> <<>>, contents |-> <<>>]
       ELSE [error |-> "none", key |-> fc.key, name |-> sf.name, contents |-> sf.contents]

FuseDecode ==
    /\ cpc \in {"fuse_encoded", "raw"}
    /\ cout' = fuse_decode(wire, <<>>, 0)
    /\ cpc' = IF cpc = "raw" THEN "raw_decoded" ELSE "fuse_decoded"
    /\ UNCHANGED <<cin, wire>>
    /\ UNCHANGED <<ivars, mvars, avars, scan>>

\* SubFile::from_merged on a value as found in a chunk.  error "ub": no
\* NUL in the value, and the call has no defined result (the range given to
\* the std::u8string constructor ends at a null pointer)
SplitRaw ==
    /\ cpc = "merged"
    /\ cout' = LET r == from_merged(wire)
               IN [error |-> IF r.ub THEN "ub" ELSE "none",
                   name |-> r.name, contents |-> r.contents]
    /\ cpc' = "merged_split"
    /\ UNCHANGED <<cin, wire>>
    /\ UNCHANGED <<ivars, mvars, avars, scan>>

\* TextChunk(const unsigned char *) on the first chunk of a buffer.  With a
\* negative compressed_length decompress is handed a span of nearly 2^64
\* bytes: it rejects the first of them, or reads on until the run faults.
ChunkDecode ==
    /\ cpc = "chunk"
    /\ LET r == TextChunk_decode(wire, <<>>, 0)
       IN IF r.error = "ub"
          THEN \E e \in {"decompress", "crashed"} : cout' = [r EXCEPT !.error = e]
          ELSE cout' = r
    /\ cpc' = "chunk_decoded"
    /\ UNCHANGED <<cin, wire>>
    /\ UNCHANGED <<ivars, mvars, avars, scan>>

\* FuseChunk::is_valid on the first chunk of a buffer
IsValid ==
    /\ cpc = "chunk"
    /\ cout' = [valid |-> FuseChunk_is_valid(wire, <<>>, 0)]
    /\ cpc' = "chunk_checked"
    /\ UNCHANGED <<cin, wire>>
    /\ UNCHANGED <<ivars, mvars, avars, scan>>

NextCodec ==
    \/ TextEncode \/ TextDecode \/ Merge \/ Split \/ FuseEncode \/ FuseDecode
    \/ SplitRaw \/ ChunkDecode \/ IsValid

SpecCodec == InitCodec /\ [][NextCodec]_vars

-----------------------------------------------------------------------------
(* Reading a buffer as a PNG stream, for the statements below *)

\* the value of 4 big-endian bytes
BE32(b) == (b[1] * 16777216) + (b[2] * 65536) + (b[3] * 256) + b[4]

RECURSIVE StreamChunks(_, _)
\* the chunks of buf from offset off on, each as its bytes (length, type,
\* payload, CRC), up to the first place where no whole chunk is left
StreamChunks(buf, off) ==
    IF off + 12 > Len(buf) THEN <<>>
    ELSE LET total == 12 + BE32(Slice(buf, off, off + 4))
         IN IF off + total > Len(buf) THEN <<>>
            ELSE <<Slice(buf, off, off + total)>> \o StreamChunks(buf, off + total)

RECURSIVE Flatten(_)
Flatten(ss) == IF ss = <<>> THEN <<>> ELSE Head(ss) \o Flatten(Tail(ss))

\* signature, then whole chunks up to the last byte
WellFormed(buf) ==
    /\ Len(buf) >= 8
    /\ buf = PNG_SIGNATURE \o Flatten(StreamChunks(buf, 8))

ChunkType(c) == SubSeq(c, 5, 8)
ChunkPayload(c) == SubSeq(c, 9, Len(c) - 4)

\* an embedded-file chunk as the enumeration and the deletion select it:
\* type fuSe and a payload that begins with the keyword
IsFuse(c) ==
    /\ ChunkType(c) = FuseChunk_type
    /\ Len(ChunkPayload(c)) >= Len(FuseChunk_key)
    /\ SubSeq(ChunkPayload(c), 1, Len(FuseChunk_key)) = FuseChunk_key

NotFuse(c) == ~IsFuse(c)

FuseChunksIn(buf) == SelectSeq(StreamChunks(buf, 8), IsFuse)
OtherChunksIn(buf) == SelectSeq(StreamChunks(buf, 8), NotFuse)

\* the payload of c carries sf: some key without NUL, two NULs, and the
\* compressed merged form of sf
Carries(c, sf) ==
    LET payload == ChunkPayload(c)
        tail == <<0, 0>> \o compress(merged(sf))
        klen == Len(payload) - Len(tail)
    IN /\ klen >= 0
       /\ SubSeq(payload, klen + 1, Len(payload)) = tail
       /\ \A i \in 1..klen : payload[i] # 0

Last == log[Len(log)]
Prior == log[Len(log) - 1]
Adds == {"add_sub_file", "add_sub_files"}

\* the key of a chunk as written in it: the payload bytes before the first NUL
WrittenKey(c) ==
    LET payload == ChunkPayload(c)
        nuls == {i \in 1..Len(payload) : payload[i] = 0}
    IN IF nuls = {} THEN payload
       ELSE SubSeq(payload, 1, (CHOOSE i \in nuls : \A j \in nuls : i <= j) - 1)

\* index of the first IDAT chunk of the stream, 0 if it has none
FirstIdat(buf) ==
    LET cs == StreamChunks(buf, 8)
        idats == {i \in 1..Len(cs) : ChunkType(cs[i]) = T_IDAT}
    IN IF idats = {} THEN 0 ELSE CHOOSE i \in idats : \A j \in idats : i <= j

\* the offset behind the longest run of IDAT chunks that begins at the
\* first IDAT chunk
AfterFirstIdatRun(buf) ==
    LET cs == StreamChunks(buf, 8)
        first == FirstIdat(buf)
        run == {j \in first..Len(cs) : \A k \in first..j : ChunkType(cs[k]) = T_IDAT}
        last == CHOOSE j \in run : \A k \in run : k <= j
    IN 8 + Len(Flatten(SubSeq(cs, 1, last)))

-----------------------------------------------------------------------------
(* The statements checked *)

\* C1: files embedded by one add_sub_file call into a freshly loaded image
\* that holds no embedded-file chunk are enumerated by get_sub_files as
\* exactly their (name, contents) pairs, in the order given
C1_EmbedThenEnumerate ==
    ( /\ Len(log) = 2
      /\ log[1].op \in Adds /\ Len(log[1].files) >= 1
      /\ FuseChunksIn(log[1].before) = <<>>
      /\ log[2].op = "get_sub_files" )
        => /\ pc = "loaded"
           /\ log[2].error = "none"
           /\ log[2].subs = log[1].files

C1_Witness ==
    /\ Len(log) = 2
    /\ file = Png_plain
    /\ log[1].op = "add_sub_files" /\ log[1].files = <<FileA, FileB>>
    /\ FuseChunksIn(log[1].before) = <<>>
    /\ log[2].op = "get_sub_files" /\ log[2].subs = <<FileA, FileB>>

\* C2: decoding the chunk that TextChunk::encode made of (key, value) gives
\* back exactly that key and that value
C2_TextChunkRoundTrip ==
    cpc = "text_decoded"
        => cout = [error |-> "none", key |-> cin.key, value |-> cin.value]

C2_Witness ==
    /\ cpc = "text_decoded"
    /\ cin.value = <<>> /\ cin.key = FuseChunk_key
    /\ cout.error = "none" /\ cout.key = FuseChunk_key

\* C3: from_merged of the merged form of (name, contents) gives back exactly
\* that name and those contents, also when the contents hold NUL bytes
C3_MergedRoundTrip ==
    cpc = "sub_split"
        => cout = [ub |-> FALSE, name |-> cin.name, contents |-> cin.contents]

C3_Witness ==
    /\ cpc = "sub_split"
    /\ Len(cin.name) >= 1
    /\ \E i \in 1..Len(cin.contents) : cin.contents[i] = 0
    /\ cout.name = cin.name /\ cout.contents = cin.contents

\* C4 as stated: the second of two clear_chunks calls in a row returns 0
\* and leaves the buffer as it found it
C4_SecondClearReturnsZero ==
    ( /\ pc = "loaded" /\ Len(log) >= 2
      /\ Prior.op = "clear_chunks" /\ Last.op = "clear_chunks" )
        => Last.count = 0 /\ image = Last.before

\* C5 as stated: embedding n files into an image without embedded-file
\* chunks and then calling clear_chunks returns n and restores the buffer
C5_EmbedThenClearRestores ==
    ( /\ pc = "loaded" /\ Len(log) = 2
      /\ log[1].op \in Adds
      /\ FuseChunksIn(log[1].before) = <<>>
      /\ log[2].op = "clear_chunks" )
        => log[2].count = Len(log[1].files) /\ image = log[1].before

\* C6 as stated: clear_chunks leaves the original buffer less exactly its
\* embedded-file chunks, and no embedded-file chunk remains
C6_ClearRemovesAllAndOnly ==
    (pc = "loaded" /\ Len(log) >= 1 /\ Last.op = "clear_chunks" /\ WellFormed(Last.before))
        => /\ image = PNG_SIGNATURE \o Flatten(OtherChunksIn(Last.before))
           /\ FuseChunksIn(image) = <<>>

\* C7 as stated: the number clear_chunks returns is the number of
\* embedded-file chunks that are gone from the buffer
C7_CountIsChunksDeleted ==
    (pc = "loaded" /\ Len(log) >= 1 /\ Last.op = "clear_chunks")
        => Last.count = Len(FuseChunksIn(Last.before)) - Len(FuseChunksIn(image))

\* C8: an add_sub_file call (one file or a list) leaves every byte before
\* idat_end_pos as it was
C8_PrefixStable ==
    (pc = "loaded" /\ Len(log) >= 1 /\ Last.op \in Adds)
        => \A i \in 1..Min(idat_end_pos, Len(Last.before)) :
              i <= Len(image) /\ image[i] = Last.before[i]

C8_Witness ==
    /\ pc = "loaded" /\ Len(log) >= 1
    /\ Last.op = "add_sub_files" /\ Len(Last.files) = 2
    /\ Len(image) > Len(Last.before)
    /\ idat_end_pos < Len(Last.before)

\* C9: get_sub_files returns one record for every embedded-file chunk of
\* the stream, wherever the chunk stands (before the IDAT chunks, between
\* them, behind idat_end_pos), in stream order, and nothing else
C9_WholeScan ==
    (pc = "loaded" /\ Len(log) >= 1 /\ Last.op = "get_sub_files" /\ WellFormed(Last.before))
        => /\ Len(Last.subs) = Len(FuseChunksIn(Last.before))
           /\ \A i \in 1..Len(Last.subs) : Carries(FuseChunksIn(Last.before)[i], Last.subs[i])

C9_Witness ==
    /\ pc = "loaded" /\ Len(log) = 1
    /\ file = Png_two_ranges
    /\ Last.op = "get_sub_files"
    /\ Last.subs = <<FileC, FileD>>

\* C10 as stated: decoding a chunk of type fuSe whose key is not exactly
\* "PNGFuse" fails with the corrupt-chunk error
C10_WrongKeywordRejected ==
    ( /\ cpc = "raw_decoded"
      /\ ChunkType(wire) = FuseChunk_type
      /\ WrittenKey(wire) # FuseChunk_key )
        => cout.error = "corrupt"

\* C11 as stated: from_merged of bytes without a NUL byte (the empty
\* sequence too) fails with the corrupt-record error and gives no pair
C11_SplitWithoutNulFails ==
    (cpc = "merged_split" /\ \A i \in 1..Len(wire) : wire[i] # 0)
        => cout.error = "corrupt record"

\* C12 as stated: get_sub_files and clear_chunks on a stream with a chunk
\* header that is cut off or that declares more bytes than are left fail
\* with the format error and leave the buffer as it was
C12_MalformedHeaderIsFatal ==
    ( /\ Len(log) >= 1
      /\ Last.op \in {"get_sub_files", "clear_chunks"}
      /\ ~WellFormed(Last.before) )
        => /\ pc = "failed"
           /\ Last.error = "format"
           /\ image = Last.before

\* C13 as stated: loading a file with the PNG signature and no IDAT chunk
\* fails with the format error
C13_NoIdatFailsFast ==
    ( /\ pc # "start" /\ log = <<>>
      /\ Len(file) >= 8 /\ SubSeq(file, 1, 8) = PNG_SIGNATURE
      /\ \A i \in 1..Len(StreamChunks(file, 8)) : ChunkType(StreamChunks(file, 8)[i]) # T_IDAT )
        => pc = "failed"

\* C14 as stated: the constructor fails with the corrupt-chunk error when
\* the first L - 1 payload bytes hold no NUL (for every payload length L,
\* 0 and 1 too) and when the byte behind the first NUL is not 0; a key it
\* returns is the payload bytes before the first NUL
C14_DecodeErrorConditions ==
    cpc = "chunk_decoded" =>
        LET payload == ChunkPayload(StreamChunks(wire, 0)[1])
            nuls == {i \in 1..(Len(payload) - 1) : payload[i] = 0}
            first == CHOOSE i \in nuls : \A j \in nuls : i <= j
        IN IF nuls = {} THEN cout.error = "corrupt"
           ELSE IF payload[first + 1] # 0 THEN cout.error = "corrupt"
           ELSE cout.error = "none" => cout.key = SubSeq(payload, 1, first - 1)

\* C15: a file whose first 8 bytes are not the PNG signature (a shorter
\* file too) is rejected by the constructor, and the image of every loaded
\* object begins with the signature, also after insertions and deletions
C15_SignatureChecked ==
    /\ (pc # "start" /\ (Len(file) < 8 \/ SubSeq(file, 1, 8) # PNG_SIGNATURE))
           => pc = "failed" /\ log = <<>>
    /\ (pc = "loaded" \/ (pc = "failed" /\ log # <<>>))
           => Len(image) >= 8 /\ SubSeq(image, 1, 8) = PNG_SIGNATURE

C15_Witness ==
    /\ pc = "loaded" /\ Len(log) = 2
    /\ log[1].op \in Adds /\ Len(log[1].files) >= 1
    /\ log[2].op = "clear_chunks" /\ log[2].count >= 1
    /\ Len(image) < Len(log[2].before)
    /\ SubSeq(image, 1, 8) = PNG_SIGNATURE

\* C16 as stated: is_valid holds exactly of the chunks of type fuSe whose
\* payload begins with the keyword PNGFuse; a payload shorter than the
\* keyword is never valid
C16_IsValidIffTypeAndKeyword ==
    cpc = "chunk_checked" => (cout.valid <=> IsFuse(StreamChunks(wire, 0)[1]))

\* C17: in a run of fuse, sunder or clean a file is written only after the
\* image was loaded and the one call that encodes and inserts, decodes, or
\* deletes has returned without error; a run that ends in another step
\* than a write has written nothing.  fuse and clean write the image as
\* that call left it.
C17_NoPartialOutput ==
    /\ disk # <<>> =>
          /\ pc \in {"loaded", "done", "failed"}
          /\ Len(log) >= 1 /\ log[1].error = "none"
          /\ \/ cmd.op = "fuse" /\ log[1].op \in Adds /\ log[1].files = cmd.files
             \/ cmd.op = "sunder" /\ log[1].op = "get_sub_files"
             \/ cmd.op = "clean" /\ log[1].op = "clear_chunks"
          /\ cmd.op \in {"fuse", "clean"} => Len(disk) = 1 /\ disk[1].contents = image
          /\ cmd.op = "fuse" => Len(image) > Len(log[1].before)
          /\ cmd.op = "sunder" =>
                \A i \in 1..Len(disk) :
                    SubFileOf(disk[i].name, disk[i].contents) = log[1].subs[i]
          /\ pc = "failed" => Last.op = "save"
    /\ (pc \in {"failed", "crashed", "hung"} /\ (log = <<>> \/ Last.op # "save"))
          => disk = <<>>

C17_Witness ==
    /\ pc = "done" /\ cmd.op = "fuse" /\ Len(cmd.files) = 2
    /\ Len(disk) = 1 /\ disk[1].complete
    /\ Len(FuseChunksIn(disk[1].contents)) = 2

\* C18: in add_chunk(chunks) the image is as loaded until every encode
\* task is done and its result taken; the results stand in encoded in the
\* order of the chunks whatever the order the tasks ran in; and when the
\* inserts are through the image is the loaded one with the encoded chunks
\* at idat_end_pos in the order of the chunks
C18_ForkJoinInsert ==
    (pc = "loaded" /\ cmd.op = "add_chunk") =>
        /\ (inserted > 0 \/ image # file) =>
              /\ Len(tasks) = Len(cmd.files) /\ Len(encoded) = Len(cmd.files)
              /\ \A i \in 1..Len(tasks) : tasks[i].state = "done"
        /\ \A i \in 1..Len(encoded) : encoded[i] = FuseChunk_encode(FuseChunkOf(cmd.files[i]))
        /\ inserted = 0 => image = file
        /\ (inserted = Len(cmd.files) /\ Len(encoded) = Len(cmd.files)) =>
              image = Slice(file, 0, idat_end_pos)
                        \o Flatten([i \in 1..Len(cmd.files) |->
                                       FuseChunk_encode(FuseChunkOf(cmd.files[i]))])
                        \o Slice(file, idat_end_pos, Len(file))

\* the second task was run by a thread, the first by get() itself
C18_Witness ==
    /\ pc = "loaded" /\ cmd.op = "add_chunk"
    /\ file = Png_plain /\ cmd.files = <<FileA, FileB>>
    /\ inserted = 2 /\ Len(tasks) = 2
    /\ tasks[1].by = "get" /\ tasks[2].by = "thread"
    /\ FuseChunksIn(image) = <<FuseChunk_encode(FuseChunkOf(FileA)),
                               FuseChunk_encode(FuseChunkOf(FileB))>>

\* C19 as stated: for a file with the signature and at least one IDAT
\* chunk the constructor sets idat_end_pos to the offset behind the run of
\* IDAT chunks that begins at the first IDAT chunk, a chunk boundary inside
\* the buffer, also when that run ends the file
C19_InsertionOffsetAfterFirstIdatRun ==
    ( /\ pc # "start" /\ log = <<>>
      /\ Len(file) >= 8 /\ SubSeq(file, 1, 8) = PNG_SIGNATURE
      /\ FirstIdat(file) # 0 )
        => /\ pc = "loaded"
           /\ idat_end_pos = AfterFirstIdatRun(file)
           /\ idat_end_pos <= Len(file)

\* C20: an encoded chunk is the length of its payload, the type code of its
\* kind, the payload key, NUL, 0, compressed value, and the CRC-32 of type
\* code and payload; an encoded fuSe chunk has the key PNGFuse and satisfies
\* is_valid
C20_EncodedChunkWellFormed ==
    cpc \in {"text_encoded", "fuse_encoded"} =>
        LET key == IF cpc = "text_encoded" THEN cin.key ELSE FuseChunk_key
            value == IF cpc = "text_encoded" THEN cin.value ELSE merged(cin)
            type == IF cpc = "text_encoded" THEN TextChunk_type ELSE FuseChunk_type
            payload == SubSeq(wire, 9, Len(wire) - 4)
        IN /\ Len(wire) >= 12
           /\ BE32(SubSeq(wire, 1, 4)) = Len(payload)
           /\ SubSeq(wire, 5, 8) = type
           /\ payload = key \o <<0>> \o <<0>> \o compress(value)
           /\ SubSeq(wire, Len(wire) - 3, Len(wire)) = lodepng_crc32(type \o payload)
           /\ StreamChunks(wire, 0) = <<wire>>
           /\ cpc = "fuse_encoded" => FuseChunk_is_valid(wire, <<>>, 0) /\ IsFuse(wire)

C20_Witness ==
    /\ cpc = "fuse_encoded"
    /\ Len(cin.name) = 2 /\ Len(cin.contents) = 2
    /\ FuseChunk_is_valid(wire, <<>>, 0)
    /\ BE32(SubSeq(wire, 1, 4)) = Len(wire) - 12

\* C21 as stated: every scan that begins (the search of the constructor
\* for idat_end_pos, the loop of get_chunks, the loop of clear_chunks) comes
\* to an end, also when an IDAT run or an over-long chunk reaches the end
\* of the buffer
C21_ScansTerminate == (scan.loop # "none") ~> (scan.loop = "none")

\* the calls made so far are insertions and deletions only
OnlyMutations ==
    /\ log # <<>>
    /\ \A i \in 1..Len(log) : log[i].op \in Adds \cup {"clear_chunks"}

\* C22 as stated: after add_sub_file and clear_chunks calls on an image
\* loaded from a well-formed file, idat_end_pos is the offset behind the
\* first IDAT run of the buffer as it is now, inside the buffer; and an
\* add_sub_file call made after them returns and leaves a stream of whole
\* chunks
C22_InsertionOffsetStaysValid ==
    /\ (pc = "loaded" /\ OnlyMutations /\ WellFormed(file))
          => /\ idat_end_pos = AfterFirstIdatRun(image)
             /\ idat_end_pos <= Len(image)
    /\ (OnlyMutations /\ WellFormed(file) /\ Last.op \in Adds)
          => pc = "loaded" /\ WellFormed(image)

\* C23 as stated: in the scans of the constructor, of get_chunks and of
\* clear_chunks on a buffer with the signature no test of a chunk reads
\* its type code or its keyword bytes outside the buffer
C23_ScanReadsInsideBuffer == ~scan.outside

\* the encoded chunks of the files of an add_sub_file call, in their order
EncodedOf(files) ==
    Flatten([i \in 1..Len(files) |-> FuseChunk_encode(FuseChunkOf(files[i]))])

\* C24: of two add_sub_file calls in a row on a loaded image the chunks of
\* the second stand in front of the chunks of the first, the chunks of each
\* call in the order of its files, all of them at idat_end_pos and so in
\* front of every chunk that followed the IDAT run in the file;
\* get_sub_files enumerates them in that order
C24_LaterInsertGoesFirst ==
    (pc = "loaded" /\ Len(log) = 2 /\ log[1].op \in Adds /\ log[2].op \in Adds) =>
        LET head == Slice(file, 0, idat_end_pos)
            tail == Slice(file, idat_end_pos, Len(file))
            enumerated(buf) == get_sub_files(buf, <<>>).sub_files
        IN /\ image = head \o EncodedOf(log[2].files) \o EncodedOf(log[1].files) \o tail
           /\ get_sub_files(image, <<>>).error = "none"
           /\ enumerated(image) = enumerated(head) \o log[2].files \o log[1].files
                                    \o enumerated(PNG_SIGNATURE \o tail)

C24_Witness ==
    /\ pc = "loaded" /\ Len(log) = 2
    /\ file = Png_fuse_after_idat
    /\ log[1].op = "add_sub_files" /\ log[1].files = <<FileA, FileB>>
    /\ log[2].op = "add_sub_files" /\ log[2].files = <<FileB, FileA>>
    /\ get_sub_files(image, <<>>).sub_files = <<FileB, FileA, FileA, FileB, FileC, FileD>>

=============================================================================
